---- MODULE Spec2Model ----
(***************************************************************************)
(* Model of foundationdb/src/future.rs: the bridge FdbFuture<T> between a  *)
(* foreign FDBFuture and a native future, the handle FdbFutureHandle that  *)
(* releases the foreign future on drop, the extraction of a result of      *)
(* shape T (TryFrom<FdbFutureHandle>), the views over the foreign arrays   *)
(* and the iterators whose row elements share the handle.                  *)
(*                                                                         *)
(* One foreign future is followed from FdbFuture::new to the drop of its   *)
(* last owner.  poll is split at the points where the foreign network      *)
(* thread can interleave: after fdb_future_is_ready, inside                *)
(* AtomicWaker::register, and before fdb_future_set_callback.  The wake    *)
(* cell is futures::task::AtomicWaker (WAITING / REGISTERING / WAKING).    *)
(*                                                                         *)
(* Spec is the bridge with its owners, LiveSpec one task that re-polls on  *)
(* wake, ViewSpec the views and iterators over a given foreign array.      *)
(***************************************************************************)
EXTENDS Integers, FiniteSets, Sequences, TLC

\* ----------------------------------------------------------------- bounds
NTasks == 2      \* tasks (wake targets) that may poll the bridge
MaxLen == 3      \* largest length of a foreign array
MaxN == 2        \* largest argument of nth / nth_back (far from usize::MAX:
                 \* checked_add never overflows here)
MaxErr == 2      \* non-success foreign status codes are 1..MaxErr
MaxPolls == 1    \* the count of suspended polls saturates here (the polls
                 \* themselves are not limited)

Tasks == 1..NTasks
NoTask == 0
ErrCodes == 1..MaxErr
NoItem == -1

Shapes == {"unit", "int64", "optslice", "slice", "addresses", "keys", "values", "mapped"}
\* shapes whose TryFrom keeps the handle in a view (optslice: when present)
ViewShapes == {"optslice", "slice", "addresses", "keys", "values", "mapped"}
\* views with an owning IntoIterator
IterShapes == {"keys", "values", "mapped"}
\* iterators that are DoubleEndedIterator
BackShapes == {"values", "mapped"}

VARIABLES
    shape,        \* T of FdbFuture<T>
    \* ---- the foreign future
    fready,       \* fdb_future_is_ready would return non-zero
    fstatus,      \* what fdb_future_get_error returns once ready
    destroyed,    \* calls of fdb_future_destroy
    cancelCalls,  \* calls of fdb_future_cancel
    cbArg,        \* the callback: "none", "set", "waking", "skipped", "fired"
    cbHeld,       \* the waker the running callback took out of the cell
    \* ---- the wake cell, Arc<AtomicWaker>
    cellAlloc,    \* "none", "live", "freed"
    cellRc,       \* strong count of the Arc
    cellState,    \* AtomicWaker state
    cellWaker,    \* AtomicWaker slot: a task or NoTask
    \* ---- the bridge FdbFuture<T>
    bridge,       \* "alive", "dropped"
    bf,           \* self.f is Some
    bwaker,       \* self.waker is Some
    pc,           \* position of the poll in progress
    pollTask,     \* the task of cx.waker() of the current / last poll
    pollReg,      \* the local `register`
    ret,          \* result of the last poll
    woken,        \* tasks whose waker was triggered and that did not poll since
    \* ---- view, iterator, row elements
    view,         \* "none", "alive", "moved", "dropped"
    vlen,         \* len of the view
    iter,         \* "none", "alive", "dropped"
    ilen,         \* FdbValuesIter.len
    ipos,         \* FdbValuesIter.pos
    rc,           \* strong count of the Arc/Rc<FdbFutureHandle>
    rows,         \* indices of the live row elements
    \* ---- history
    nSuspend,     \* polls that returned Pending (saturating)
    dropPending,  \* the bridge was dropped holding a pending future
    accessorCalls,\* calls of a typed fdb_future_get_* accessor
    regAtReady,   \* the last poll called set_callback on a complete future
    afterConsumed,\* results of the polls made after self.f was taken
    frontCnt,     \* rows consumed or skipped from the front
    backCnt,      \* rows consumed or skipped from the back
    nYielded,     \* row elements yielded
    nSetCallback, \* calls of fdb_future_set_callback
    nCells,       \* wake cells created
    lastReg,      \* task of the most recent registration that completed, kept
                  \* until the callback's wake has been delivered
    cbWoke,       \* one entry per wake made by the callback, or for it by
                  \* register: which registration's task was woken
    nFromRaw,     \* times the callback reclaimed its Arc with Arc::from_raw
    nErrPolls,    \* polls that returned the status error (saturating)
    xacc,         \* status the typed accessor returned, NoItem before extraction
    xpresent,     \* presence flag fdb_future_get_value reported, else NoItem
    statusRead,   \* fdb_future_get_error has been called
    farr,         \* the foreign array: the records behind the out-pointer
    fptr,         \* the out-pointer itself: "null" or "valid"
    fmore,        \* the foreign continuation flag (fdb_bool_t)
    pv,           \* the view built by try_from: st, ptr, len, more
    sl,           \* what deref of the view returned
    moreAns,      \* the answers more() has given
    itF, itB,     \* two fresh iterators over the view: st, pos, len
    outF, outB,   \* what next returned on itF, next_back on itB, in call order
    itM,          \* an iterator used from both ends: st, pos, len
    ylF, ylB,     \* the row indices itM yielded from the front, from the back
    lastCall      \* the last call on itM, its result, and the result of the
                  \* same number of next / next_back calls

foreignVars == <<fready, fstatus, destroyed, cancelCalls, cbArg, cbHeld>>
cellVars == <<cellAlloc, cellRc, cellState, cellWaker>>
bridgeVars == <<bridge, bf, bwaker, pc, pollTask, pollReg, ret, woken>>
viewVars == <<view, vlen, iter, ilen, ipos, rc, rows>>
histVars == <<nSuspend, dropPending, accessorCalls, regAtReady, afterConsumed,
              frontCnt, backCnt, nYielded>>
cbHist == <<nSetCallback, nCells, lastReg, cbWoke, nFromRaw>>
resHist == <<nErrPolls, xacc, xpresent, statusRead>>
arrVars == <<farr, fptr, fmore, pv, sl, moreAns, itF, itB, outF, outB>>
mixVars == <<itM, ylF, ylB, lastCall>>
\* everything but the result shape and the views over a foreign array
bridgeSide == <<foreignVars, cellVars, bridgeVars, viewVars, histVars, cbHist,
                resHist>>
vars == <<shape, bridgeSide, arrVars, mixVars>>

\* ---------------------------------------------------------------- helpers
Min(a, b) == IF a < b THEN a ELSE b

\* error::eval: status 0 is Ok(()), any other status is Err(FdbError(code))
Eval(code) == IF code = 0 THEN [ok |-> TRUE, code |-> 0] ELSE [ok |-> FALSE, code |-> code]

\* faulty variant of AndThen: the extraction runs whatever the status
AndThenAlways(e) == TRUE

\* Result::and_then: the closure (take and try_from) runs only on Ok
AndThen(e) == e.ok

\* faulty variant of HandleDropCancel: drop also calls fdb_future_cancel
HandleDropAlsoCancels(c) == c + 1

\* Drop for FdbFutureHandle: one fdb_future_destroy, no fdb_future_cancel
HandleDrop(d) == d + 1
HandleDropCancel(c) == c

\* faulty variant of ArcClone: the row element copies the pointer without counting
ArcCloneNoCount(n) == n

\* Arc / Rc strong count
ArcClone(n) == n + 1

\* faulty variant of ArcDrop: the reference is forgotten instead of dropped
ArcDropKeeps(n) == n

\* drop of an Arc (Rc): the strong count goes down by one
ArcDrop(n) == n - 1

\* faulty variant of AsRefLeaves: the handle is moved out of self.f
AsRefTakes(b) == FALSE

\* Option::as_ref on self.f (line 91): the handle is borrowed, self.f is as before
AsRefLeaves(b) == b

\* faulty variant of TakeLeaves: the handle is copied out and self.f stays Some
TakeKeeps(b) == b

\* Option::take on self.f: what is left behind
TakeLeaves(b) == FALSE

\* faulty variant of PollAfterResolveResult: a resolved bridge answers Pending
PollAfterResolveSuspends == "pending"

\* poll with self.f = None: expect("cannot poll after resolve") panics
PollAfterResolveResult == "panic"

\* faulty variant of WakeTargets: the callback drops the waker without waking it
WakeNobody(w) == {}

\* Option<Waker>::wake of the callback: the tasks triggered
WakeTargets(w) == IF w = NoTask THEN {} ELSE {w}

\* faulty variant of CellAfter: the cell is freed while one Arc is left
CellAfterFreesEarly(n, alloc) == IF alloc = "live" /\ n <= 1 THEN "freed" ELSE alloc

\* strong count -> allocation state of the Arc's cell: the AtomicWaker is freed
\* when the last Arc to it is dropped
CellAfter(n, alloc) == IF n = 0 THEN "freed" ELSE alloc

Result(kind, code, src) == [kind |-> kind, code |-> code, src |-> src]

\* faulty variant of Nth: the bound test is pos <= len
NthInclusive(pos, len, n) ==
    LET p == pos + n IN
    IF p <= len
    THEN [pos |-> p + 1, len |-> len, item |-> p]
    ELSE [pos |-> len, len |-> len, item |-> NoItem]

\* faulty variant of Nth: nth(n), n > 0, skips one row less
NthShort(pos, len, n) ==
    LET p == pos + (IF n > 0 THEN n - 1 ELSE 0) IN
    IF p < len
    THEN [pos |-> p + 1, len |-> len, item |-> p]
    ELSE [pos |-> len, len |-> len, item |-> NoItem]

\* faulty variant of Nth: pos is not moved past the row yielded
NthKeepsPos(pos, len, n) ==
    LET p == pos + n IN
    IF p < len
    THEN [pos |-> p, len |-> len, item |-> p]
    ELSE [pos |-> len, len |-> len, item |-> NoItem]

\* FdbValuesIter::nth (FdbKeysIter, FdbMappedValuesIter alike): the fields after
\* the call and the index of the row yielded
Nth(pos, len, n) ==
    LET p == pos + n IN
    IF p < len
    THEN [pos |-> p + 1, len |-> len, item |-> p]
    ELSE [pos |-> len, len |-> len, item |-> NoItem]

\* faulty variant of NthBack: len is moved back by n instead of 1 + n
NthBackOffByOne(pos, len, n) ==
    IF n < len - pos
    THEN [pos |-> pos, len |-> len - n, item |-> len - n]
    ELSE [pos |-> len, len |-> len, item |-> NoItem]

\* faulty variant of NthBack: the row is taken at the front end
NthBackFromFront(pos, len, n) ==
    IF n < len - pos
    THEN [pos |-> pos + n + 1, len |-> len, item |-> pos + n]
    ELSE [pos |-> len, len |-> len, item |-> NoItem]

\* FdbValuesIter::nth_back (FdbMappedValuesIter alike)
NthBack(pos, len, n) ==
    IF n < len - pos
    THEN [pos |-> pos, len |-> len - (1 + n), item |-> len - (1 + n)]
    ELSE [pos |-> len, len |-> len, item |-> NoItem]

\* ExactSizeIterator::len / size_hint
RemainingLen(pos, len) == len - pos

NoView == [st |-> "none", ptr |-> "null", len |-> 0, more |-> FALSE]
NoSlice == [st |-> "none", elems |-> <<>>]
NoIter == [st |-> "none", pos |-> 0, len |-> 0]

NoCall == [op |-> "none", n |-> 0, item |-> NoItem, rem |-> 0,
           refItem |-> NoItem, refRem |-> 0]

\* the iterator used from both ends does not exist
InitNoMix == itM = NoIter /\ ylF = <<>> /\ ylB = <<>> /\ lastCall = NoCall

\* no foreign array has been handed out and no view built
InitNoArray ==
    /\ farr = <<>> /\ fptr = "null" /\ fmore = 0
    /\ pv = NoView /\ sl = NoSlice /\ moreAns = {}
    /\ itF = NoIter /\ itB = NoIter /\ outF = <<>> /\ outB = <<>>
    /\ InitNoMix

\* FdbFuture::new: the bridge holds the handle, nothing else exists
InitBridge ==
    /\ fready = FALSE /\ fstatus = 0 /\ destroyed = 0 /\ cancelCalls = 0
    /\ cbArg = "none" /\ cbHeld = NoTask
    /\ cellAlloc = "none" /\ cellRc = 0 /\ cellState = "WAITING" /\ cellWaker = NoTask
    /\ bridge = "alive" /\ bf = TRUE /\ bwaker = FALSE /\ pc = "idle"
    /\ pollTask = NoTask /\ pollReg = FALSE /\ ret = Result("none", 0, "")
    /\ woken = {}
    /\ view = "none" /\ vlen = 0 /\ iter = "none" /\ ilen = 0 /\ ipos = 0
    /\ rc = 0 /\ rows = {}
    /\ nSuspend = 0 /\ dropPending = FALSE /\ accessorCalls = 0
    /\ regAtReady = FALSE /\ afterConsumed = {}
    /\ frontCnt = 0 /\ backCnt = 0 /\ nYielded = 0
    /\ nSetCallback = 0 /\ nCells = 0 /\ lastReg = NoTask /\ cbWoke = <<>>
    /\ nFromRaw = 0
    /\ nErrPolls = 0 /\ xacc = NoItem /\ xpresent = NoItem /\ statusRead = FALSE

Init ==
    /\ shape \in Shapes
    /\ InitBridge
    /\ InitNoArray

\* ------------------------------------------------------- the foreign side
\* The foreign operation completes with a status.
ForeignComplete ==
    /\ ~fready /\ destroyed = 0
    /\ fready' = TRUE
    /\ fstatus' \in {0} \cup ErrCodes
    /\ UNCHANGED <<shape, arrVars, mixVars, cbHist, resHist, destroyed, cancelCalls, cbArg, cbHeld, cellVars,
                   bridgeVars, viewVars, histVars>>

\* ----------------------------------------------------------- FdbFuture::poll
\* line 91: self.f is None, the expect panics
PollAfterResolve(t) ==
    /\ bridge = "alive" /\ pc = "idle" /\ ~bf
    /\ pollTask' = t
    /\ woken' = woken \ {t}
    /\ ret' = Result(PollAfterResolveResult, 0, "")
    /\ afterConsumed' = afterConsumed \cup {PollAfterResolveResult}
    /\ regAtReady' = FALSE
    /\ UNCHANGED <<shape, arrVars, mixVars, cbHist, resHist, foreignVars, cellVars, bridge, bf, bwaker, pc, pollReg,
                   viewVars, nSuspend, dropPending, accessorCalls, frontCnt,
                   backCnt, nYielded>>

\* lines 92-93: fdb_future_is_ready returned 0
PollCheck(t) ==
    /\ bridge = "alive" /\ pc = "idle" /\ bf /\ ~fready
    /\ pollTask' = t
    /\ woken' = woken \ {t}
    /\ ret' = Result("running", 0, "")
    /\ pc' = "checked"
    /\ regAtReady' = FALSE
    /\ bf' = AsRefLeaves(bf)
    /\ UNCHANGED <<shape, arrVars, mixVars, cbHist, resHist, foreignVars, cellVars,
                   bridge, bwaker, pollReg,
                   viewVars, nSuspend, dropPending, accessorCalls, afterConsumed,
                   frontCnt, backCnt, nYielded>>

\* the record of the wakes made on the callback's behalf: a wake of w made by
\* the callback itself, when the last completed registration was by task last
LogWake(log, w, last) ==
    IF WakeTargets(w) = {} THEN log
    ELSE Append(log, IF w = last THEN "last" ELSE "other")

\* ... and a wake of w made by the register that was in progress when the
\* callback fired
LogWakeByRegister(log, w, last) ==
    Append(log, IF w = last THEN "last" ELSE "inprogress")

\* faulty variant of StoreWaker: a waker already stored is kept
StoreWakerKeepsOld(old, new) == IF old = NoTask THEN new ELSE old

\* line 100, AtomicWaker::register: the new waker replaces the stored one
StoreWaker(old, new) == new

\* faulty variant of FirstCreation: every registration counts as the first
FirstCreationAlways(had) == TRUE

\* lines 95-99: register becomes true only inside get_or_insert_with's closure
FirstCreation(had) == ~had

\* lines 95-100: get_or_insert_with, then AtomicWaker::register takes the
\* REGISTERING lock, or finds the callback WAKING and wakes the new waker itself
PollRegBegin ==
    /\ pc = "checked"
    /\ pollReg' = FirstCreation(bwaker)
    /\ nCells' = IF bwaker THEN nCells ELSE nCells + 1
    /\ bwaker' = TRUE
    /\ cellAlloc' = IF bwaker THEN cellAlloc ELSE "live"
    /\ cellRc' = IF bwaker THEN cellRc ELSE 1
    /\ LET s == IF bwaker THEN cellState ELSE "WAITING" IN
         IF s = "WAKING"
         THEN /\ cellState' = s
              /\ woken' = woken \cup {pollTask}
              /\ pc' = "registered"
         ELSE /\ cellState' = "REGISTERING"
              /\ woken' = woken
              /\ pc' = "registering"
    /\ UNCHANGED <<shape, arrVars, mixVars, nSetCallback, lastReg, cbWoke, nFromRaw, resHist,
                   foreignVars, cellWaker, bridge, bf, pollTask, ret,
                   viewVars, histVars>>

\* line 100: register stores the waker and releases the lock; a wake that came
\* in the meantime is delivered to the waker just stored
PollRegEnd ==
    /\ pc = "registering"
    /\ IF cellState = "REGISTERING_WAKING"
       THEN /\ cellWaker' = NoTask
            /\ woken' = woken \cup {pollTask}
            /\ cbWoke' = LogWakeByRegister(cbWoke, pollTask, lastReg)
            /\ lastReg' = NoTask
       ELSE /\ cellWaker' = StoreWaker(cellWaker, pollTask)
            /\ woken' = woken
            /\ cbWoke' = cbWoke
            /\ lastReg' = IF cbArg \in {"none", "set"} THEN pollTask ELSE lastReg
    /\ cellState' = "WAITING"
    /\ pc' = "registered"
    /\ UNCHANGED <<shape, arrVars, mixVars, nSetCallback, nCells, nFromRaw,
                   resHist,
                   foreignVars, cellAlloc, cellRc, bridge, bf, bwaker,
                   pollTask, pollReg, ret, viewVars, histVars>>

\* faulty variant of PollSuspend: Pending is returned without fdb_future_set_callback
PollSuspendNoCallback ==
    /\ pc = "registered"
    /\ ret' = Result("pending", 0, "")
    /\ pc' = "idle"
    /\ nSuspend' = Min(nSuspend + 1, MaxPolls)
    /\ UNCHANGED <<shape, arrVars, mixVars, cbHist, resHist, foreignVars, cellVars, bridge, bf, bwaker, pollTask,
                   pollReg, woken, viewVars, dropPending, accessorCalls,
                   regAtReady, afterConsumed, frontCnt, backCnt, nYielded>>

\* lines 101-112: on the first registration clone the Arc, hand it to
\* fdb_future_set_callback (which runs the callback at once when the future is
\* already complete) and return Poll::Pending
PollSuspend ==
    /\ pc = "registered"
    /\ IF pollReg
       THEN IF fready
            THEN /\ cbArg' = "fired"
                 /\ woken' = woken \cup WakeTargets(cellWaker)
                 /\ cbWoke' = LogWake(cbWoke, cellWaker, lastReg)
                 /\ lastReg' = NoTask
                 /\ nFromRaw' = nFromRaw + 1
                 /\ cellWaker' = NoTask
                 /\ cellRc' = ArcDrop(ArcClone(cellRc))
                 /\ regAtReady' = TRUE
            ELSE /\ cbArg' = "set"
                 /\ cellRc' = ArcClone(cellRc)
                 /\ UNCHANGED <<woken, cellWaker, regAtReady, cbWoke, lastReg,
                                nFromRaw>>
       ELSE UNCHANGED <<cbArg, woken, cellWaker, cellRc, regAtReady, cbWoke,
                        lastReg, nFromRaw>>
    /\ nSetCallback' = IF pollReg THEN nSetCallback + 1 ELSE nSetCallback
    /\ ret' = Result("pending", 0, "")
    /\ pc' = "idle"
    /\ nSuspend' = Min(nSuspend + 1, MaxPolls)
    /\ UNCHANGED <<shape, arrVars, mixVars, nCells, resHist, fready, fstatus,
                   destroyed, cancelCalls, cbHeld, cellAlloc, cellState, bridge, bf, bwaker, pollTask, pollReg,
                   viewVars, dropPending, accessorCalls, afterConsumed,
                   frontCnt, backCnt, nYielded>>

\* ------------------------------------------------------ fdb_future_callback
\* lines 128-129: Arc::from_raw, AtomicWaker::wake takes the slot under WAKING,
\* or leaves the wake to a register in progress
CallbackTake ==
    /\ cbArg = "set"
    /\ fready \/ destroyed > 0
    /\ IF cellState = "WAITING"
       THEN /\ cellState' = "WAKING"
            /\ cbHeld' = cellWaker
            /\ cellWaker' = NoTask
            /\ cbArg' = "waking"
       ELSE /\ cellState' = "REGISTERING_WAKING"
            /\ cbArg' = "skipped"
            /\ UNCHANGED <<cbHeld, cellWaker>>
    /\ nFromRaw' = nFromRaw + 1
    /\ UNCHANGED <<shape, arrVars, mixVars, nSetCallback, nCells, lastReg, cbWoke, resHist, fready,
                   fstatus, destroyed, cancelCalls, cellAlloc,
                   cellRc, bridgeVars, viewVars, histVars>>

\* lines 129-130: the taken waker is woken, the callback's Arc is dropped
CallbackFinish ==
    /\ cbArg \in {"waking", "skipped"}
    /\ IF cbArg = "waking"
       THEN /\ cellState' = "WAITING"
            /\ woken' = woken \cup WakeTargets(cbHeld)
            /\ cbWoke' = LogWake(cbWoke, cbHeld, lastReg)
            /\ lastReg' = NoTask
       ELSE UNCHANGED <<cellState, woken, cbWoke, lastReg>>
    /\ cbHeld' = NoTask
    /\ cbArg' = "fired"
    /\ cellRc' = ArcDrop(cellRc)
    /\ cellAlloc' = CellAfter(ArcDrop(cellRc), cellAlloc)
    /\ UNCHANGED <<shape, arrVars, mixVars, nSetCallback, nCells, nFromRaw, resHist, fready,
                   fstatus, destroyed, cancelCalls, cellWaker,
                   bridge, bf, bwaker, pc, pollTask, pollReg, ret, viewVars,
                   histVars>>

\* ------------------------------------------------------- drop of FdbFuture
\* lines 63-67, 51-57: the fields f and waker are dropped
BridgeDrop ==
    /\ bridge = "alive" /\ pc = "idle"
    /\ bridge' = "dropped"
    /\ bf' = FALSE
    /\ bwaker' = FALSE
    /\ destroyed' = IF bf THEN HandleDrop(destroyed) ELSE destroyed
    /\ cancelCalls' = IF bf THEN HandleDropCancel(cancelCalls) ELSE cancelCalls
    /\ dropPending' = (bf /\ ~fready)
    /\ cellRc' = IF bwaker THEN ArcDrop(cellRc) ELSE cellRc
    /\ cellAlloc' = IF bwaker THEN CellAfter(ArcDrop(cellRc), cellAlloc) ELSE cellAlloc
    /\ UNCHANGED <<shape, arrVars, mixVars, cbHist, resHist, fready, fstatus, cbArg, cbHeld, cellState, cellWaker,
                   pc, pollTask, pollReg, ret, woken, viewVars, nSuspend,
                   accessorCalls, regAtReady, afterConsumed, frontCnt, backCnt,
                   nYielded>>

\* faulty variant of Keeps: the handle outlives try_from whenever the accessor
\* succeeded
KeepsWhenOk(a, sh, present) == a.ok

\* whether try_from moves the handle into the value it returns: on success for
\* the view shapes, and for Option<FdbSlice> only when the value is present
Keeps(a, sh, present) ==
    /\ a.ok
    /\ sh \in ViewShapes
    /\ (sh = "optslice" => present # 0)

\* TryFrom<FdbFutureHandle> for T: the typed accessor is called (none for ()),
\* its status goes through error::eval, and the handle is either kept in the
\* view returned or dropped at the end of try_from
Extract(acc, present, n) ==
    LET called == shape # "unit"
        a == IF called THEN Eval(acc) ELSE Eval(0)
        keeps == Keeps(a, shape, present)
    IN  /\ accessorCalls' = IF called THEN accessorCalls + 1 ELSE accessorCalls
        /\ xacc' = IF called THEN acc ELSE 0
        /\ xpresent' = IF shape = "optslice" /\ a.ok THEN present ELSE NoItem
        /\ ret' = IF a.ok THEN Result("ok", 0, "") ELSE Result("err", a.code, "accessor")
        /\ IF keeps
           THEN /\ view' = "alive"
                /\ vlen' = n
                /\ UNCHANGED <<destroyed, cancelCalls>>
           ELSE /\ destroyed' = HandleDrop(destroyed)
                /\ cancelCalls' = HandleDropCancel(cancelCalls)
                /\ UNCHANGED <<view, vlen>>

\* lines 113-118: the future is ready; the status is read and translated, and
\* only on success is self.f taken and handed to T::try_from
PollReady(t) ==
    /\ bridge = "alive" /\ pc = "idle" /\ bf /\ fready
    /\ pollTask' = t
    /\ woken' = woken \ {t}
    /\ regAtReady' = FALSE
    /\ statusRead' = TRUE
    /\ LET e == Eval(fstatus) IN
       IF AndThen(e)
       THEN /\ bf' = TakeLeaves(bf)
            /\ \E acc \in {0} \cup ErrCodes, present \in {0, 1}, n \in 0..MaxLen :
                   Extract(acc, present, n)
            /\ nErrPolls' = nErrPolls
       ELSE /\ ret' = Result("err", e.code, "status")
            /\ nErrPolls' = Min(nErrPolls + 1, MaxPolls + 1)
            /\ UNCHANGED <<bf, accessorCalls, view, vlen, destroyed, cancelCalls,
                           xacc, xpresent>>
    /\ UNCHANGED <<shape, arrVars, mixVars, cbHist, fready, fstatus, cbArg, cbHeld, cellVars, bridge,
                   bwaker, pc, pollReg, iter, ilen, ipos, rc, rows, nSuspend,
                   dropPending, afterConsumed, frontCnt, backCnt, nYielded>>

\* ------------------------------------------------------------------- views
\* drop of a view: its field _f is dropped
ViewDrop ==
    /\ view = "alive"
    /\ view' = "dropped"
    /\ destroyed' = HandleDrop(destroyed)
    /\ cancelCalls' = HandleDropCancel(cancelCalls)
    /\ UNCHANGED <<shape, arrVars, mixVars, cbHist, resHist, fready, fstatus, cbArg, cbHeld, cellVars, bridgeVars,
                   vlen, iter, ilen, ipos, rc, rows, histVars>>

\* faulty variant of IntoIter: the iterator wraps a copy of the handle and the view
\* keeps its own
IntoIterCopies ==
    /\ view = "alive" /\ shape \in IterShapes
    /\ iter = "none"
    /\ iter' = "alive"
    /\ rc' = 1
    /\ ilen' = vlen
    /\ ipos' = 0
    /\ UNCHANGED <<shape, arrVars, mixVars, cbHist, resHist, foreignVars, cellVars, bridgeVars, view, vlen, rows,
                   histVars>>

\* IntoIterator for FdbValues / FdbKeys / MappedKeyValues: the handle moves
\* into a new Arc (Rc), pos starts at 0
IntoIter ==
    /\ view = "alive" /\ shape \in IterShapes
    /\ view' = "moved"
    /\ iter' = "alive"
    /\ rc' = 1
    /\ ilen' = vlen
    /\ ipos' = 0
    /\ UNCHANGED <<shape, arrVars, mixVars, cbHist, resHist, foreignVars, cellVars, bridgeVars, vlen, rows, histVars>>

\* the iterator's fields after a call that returned r, and the row element
\* yielded, which holds a clone of the Arc
Yield(r) ==
    /\ ipos' = r.pos
    /\ ilen' = r.len
    /\ IF r.item # NoItem
       THEN /\ rows' = rows \cup {r.item}
            /\ rc' = ArcClone(rc)
            /\ nYielded' = nYielded + 1
       ELSE UNCHANGED <<rows, rc, nYielded>>

IterNthCall(n) ==
    /\ iter = "alive"
    /\ Yield(Nth(ipos, ilen, n))
    /\ frontCnt' = frontCnt + Min(n + 1, vlen - frontCnt - backCnt)
    /\ UNCHANGED <<shape, arrVars, mixVars, cbHist, resHist, foreignVars, cellVars, bridgeVars, view, vlen, iter,
                   nSuspend, dropPending, accessorCalls, regAtReady,
                   afterConsumed, backCnt>>

IterNthBackCall(n) ==
    /\ iter = "alive" /\ shape \in BackShapes
    /\ Yield(NthBack(ipos, ilen, n))
    /\ backCnt' = backCnt + Min(n + 1, vlen - frontCnt - backCnt)
    /\ UNCHANGED <<shape, arrVars, mixVars, cbHist, resHist, foreignVars, cellVars, bridgeVars, view, vlen, iter,
                   nSuspend, dropPending, accessorCalls, regAtReady,
                   afterConsumed, frontCnt>>

\* Iterator::next is nth(0)
IterNext == IterNthCall(0)

IterNth == \E n \in 1..MaxN : IterNthCall(n)

\* DoubleEndedIterator::next_back is nth_back(0)
IterNextBack == IterNthBackCall(0)

IterNthBack == \E n \in 1..MaxN : IterNthBackCall(n)

\* drop of one owner of the shared handle: the handle is dropped with the last
SharedDrop ==
    /\ rc' = ArcDrop(rc)
    /\ IF ArcDrop(rc) = 0
       THEN /\ destroyed' = HandleDrop(destroyed)
            /\ cancelCalls' = HandleDropCancel(cancelCalls)
       ELSE UNCHANGED <<destroyed, cancelCalls>>

IterDrop ==
    /\ iter = "alive"
    /\ iter' = "dropped"
    /\ SharedDrop
    /\ UNCHANGED <<shape, arrVars, mixVars, cbHist, resHist, fready, fstatus, cbArg, cbHeld, cellVars, bridgeVars,
                   view, vlen, ilen, ipos, rows, histVars>>

RowDrop(i) ==
    /\ i \in rows
    /\ rows' = rows \ {i}
    /\ SharedDrop
    /\ UNCHANGED <<shape, arrVars, mixVars, cbHist, resHist, fready, fstatus, cbArg, cbHeld, cellVars, bridgeVars,
                   view, vlen, iter, ilen, ipos, histVars>>

\* ---------------------------------------------------------- specification
Next ==
    \/ ForeignComplete
    \/ \E t \in Tasks : PollAfterResolve(t)
    \/ \E t \in Tasks : PollCheck(t)
    \/ PollRegBegin
    \/ PollRegEnd
    \/ PollSuspend
    \/ \E t \in Tasks : PollReady(t)
    \/ CallbackTake
    \/ CallbackFinish
    \/ BridgeDrop
    \/ ViewDrop
    \/ IntoIter
    \/ IterNext
    \/ IterNth
    \/ IterNextBack
    \/ IterNthBack
    \/ IterDrop
    \/ \E i \in 0..(MaxLen - 1) : RowDrop(i)

Spec == Init /\ [][Next]_vars

TypeOK ==
    /\ destroyed \in 0..1
    /\ cellRc \in 0..2
    /\ rc \in 0..(MaxLen + 1)


\* ------------------------------------------- one task that re-polls on wake
\* The task polls first unasked and then each time its waker was triggered,
\* until poll returns Ready; it keeps the bridge until then.
TaskPoll ==
    /\ ret.kind = "none" \/ (ret.kind = "pending" /\ 1 \in woken)
    /\ PollCheck(1) \/ PollReady(1)

TaskDropsResolved ==
    /\ ret.kind \in {"ok", "err"}
    /\ BridgeDrop

LiveNext ==
    \/ ForeignComplete
    \/ TaskPoll
    \/ PollRegBegin
    \/ PollRegEnd
    \/ PollSuspend
    \/ CallbackTake
    \/ CallbackFinish
    \/ TaskDropsResolved
    \/ ViewDrop
    \/ IntoIter
    \/ IterNext
    \/ IterNextBack
    \/ IterDrop
    \/ \E i \in 0..(MaxLen - 1) : RowDrop(i)

\* the operation completes, the callback fires, a poll in progress goes on and
\* a woken task polls again
LiveSpec ==
    /\ Init /\ [][LiveNext]_vars
    /\ WF_vars(ForeignComplete)
    /\ WF_vars(CallbackTake) /\ WF_vars(CallbackFinish)
    /\ WF_vars(TaskPoll)
    /\ WF_vars(PollRegBegin) /\ WF_vars(PollRegEnd) /\ WF_vars(PollSuspend)

\* ------------------------------------------ views over a foreign array
\* The views and their iterators read the array the foreign accessor handed
\* out.  They are checked on their own: ViewSpec starts from any foreign array
\* of at most MaxLen records and runs try_from, more, deref and two fresh
\* iterators, and leaves the bridge side alone.

\* the records a foreign array is made of: key bytes and value bytes (for an
\* address list the key bytes are the characters of the string)
SampleRows ==
    { [key |-> <<7>>, value |-> <<>>],
      [key |-> <<1, 2>>, value |-> <<3>>],
      [key |-> <<>>, value |-> <<4, 5>>] }

ForeignArrays == UNION { [1..n -> SampleRows] : n \in 0..MaxLen }

\* foreign memory: record i keeps its key bytes from KeyPtr(i) on and its value
\* bytes from ValuePtr(i) on, each followed by zero bytes
KeyPtr(i) == 16 * i + 1
ValuePtr(i) == 16 * i + 9

\* the byte at address a
Mem(arr, a) ==
    LET i == (a - 1) \div 16
        off == (a - 1) % 16
    IN  IF a < 1 \/ i >= Len(arr) THEN 0
        ELSE IF off < 8
             THEN IF off < Len(arr[i + 1].key) THEN arr[i + 1].key[off + 1] ELSE 0
             ELSE IF off - 8 < Len(arr[i + 1].value)
                  THEN arr[i + 1].value[off - 7]
                  ELSE 0

\* fdb_sys::FDBKeyValue number i of the array (pointer.add(i))
ForeignKeyValue(arr, i) ==
    IF i >= 0 /\ i < Len(arr)
    THEN [key |-> KeyPtr(i), key_length |-> Len(arr[i + 1].key),
          value |-> ValuePtr(i), value_length |-> Len(arr[i + 1].value)]
    ELSE [key |-> 0, key_length |-> 0, value |-> 0, value_length |-> 0]

\* std::slice::from_raw_parts over bytes
FromRawParts(arr, p, n) == [k \in 1..n |-> Mem(arr, p + k - 1)]

\* FdbKeyValue::key and FdbKeyValue::value
Key(arr, kv) == FromRawParts(arr, kv.key, kv.key_length)
Value(arr, kv) == FromRawParts(arr, kv.value, kv.value_length)

\* CStr::from_ptr: the bytes up to the first zero byte
RECURSIVE CStrFromPtr(_, _)
CStrFromPtr(arr, p) ==
    IF Mem(arr, p) = 0 THEN <<>> ELSE <<Mem(arr, p)>> \o CStrFromPtr(arr, p + 1)

\* faulty variant of MoreOf: only the value 1 counts as true
MoreOfOne(m) == m = 1

\* TryFrom for FdbValues / MappedKeyValues: more: more != 0
MoreOf(m) == m # 0

\* the element type of the slice deref returns: the foreign struct itself for
\* FdbKeyValue, the pointer to the characters for FdbAddress
ElemAt(arr, sh, i) ==
    IF sh = "addresses" THEN [c_str |-> KeyPtr(i)] ELSE ForeignKeyValue(arr, i)

\* Deref for FdbValues / FdbAddresses: from_raw_parts(ptr, len) reinterpreted.
\* from_raw_parts requires a non-null pointer also for length 0: on a null
\* pointer the call is undefined, and a build either returns the empty slice
\* or stops at the precondition check
DerefOutcomes(v, arr, sh) ==
    IF v.ptr = "null"
    THEN { [st |-> "slice", elems |-> <<>>], [st |-> "fault", elems |-> <<>>] }
    ELSE { [st |-> "slice", elems |-> [i \in 1..v.len |-> ElemAt(arr, sh, i - 1)]] }

\* try_from: the accessor's out-parameters become the fields of the view
ViewTryFrom ==
    /\ pv.st = "none"
    /\ pv' = [st |-> "alive", ptr |-> fptr, len |-> Len(farr),
              more |-> IF shape \in BackShapes THEN MoreOf(fmore) ELSE FALSE]
    /\ UNCHANGED <<shape, bridgeSide, mixVars, farr, fptr, fmore, sl, moreAns, itF, itB,
                   outF, outB>>

\* FdbValues::more / MappedKeyValues::more
ViewMore ==
    /\ pv.st = "alive" /\ shape \in BackShapes
    /\ moreAns' = moreAns \cup {pv.more}
    /\ UNCHANGED <<shape, bridgeSide, mixVars, farr, fptr, fmore, pv, sl, itF, itB, outF,
                   outB>>

\* Deref for FdbValues and for FdbAddresses
ViewDeref ==
    /\ pv.st = "alive" /\ shape \in {"values", "addresses"}
    /\ sl' \in DerefOutcomes(pv, farr, shape)
    /\ UNCHANGED <<shape, bridgeSide, mixVars, farr, fptr, fmore, pv, moreAns, itF, itB,
                   outF, outB>>

\* into_iter: pos: 0, len: self.len
FreshIter(v) == [st |-> "alive", pos |-> 0, len |-> v.len]

\* a fresh iterator over the view, used with next only
FreshIterFwd ==
    /\ pv.st = "alive" /\ shape \in IterShapes /\ itF.st = "none"
    /\ itF' = FreshIter(pv)
    /\ UNCHANGED <<shape, bridgeSide, mixVars, farr, fptr, fmore, pv, sl, moreAns, itB,
                   outF, outB>>

\* a fresh iterator over the same view, used with next_back only
FreshIterBwd ==
    /\ pv.st = "alive" /\ shape \in BackShapes /\ itB.st = "none"
    /\ itB' = FreshIter(pv)
    /\ UNCHANGED <<shape, bridgeSide, mixVars, farr, fptr, fmore, pv, sl, moreAns, itF,
                   outF, outB>>

\* next on itF; two more calls are made after the first None
FwdNext ==
    /\ itF.st = "alive" /\ Len(outF) < pv.len + 3
    /\ LET r == Nth(itF.pos, itF.len, 0) IN
         /\ itF' = [itF EXCEPT !.pos = r.pos, !.len = r.len]
         /\ outF' = Append(outF, r.item)
    /\ UNCHANGED <<shape, bridgeSide, mixVars, farr, fptr, fmore, pv, sl, moreAns, itB,
                   outB>>

\* next_back on itB
BwdNextBack ==
    /\ itB.st = "alive" /\ Len(outB) < pv.len + 3
    /\ LET r == NthBack(itB.pos, itB.len, 0) IN
         /\ itB' = [itB EXCEPT !.pos = r.pos, !.len = r.len]
         /\ outB' = Append(outB, r.item)
    /\ UNCHANGED <<shape, bridgeSide, mixVars, farr, fptr, fmore, pv, sl, moreAns, itF,
                   outF>>

\* the accessor has handed out an array: a pointer, a count and, for key-value
\* lists, the continuation flag; an empty array may come with a null pointer
ViewInit ==
    /\ shape \in {"addresses", "keys", "values", "mapped"}
    /\ InitBridge
    /\ farr \in ForeignArrays
    /\ fptr \in (IF Len(farr) = 0 THEN {"null", "valid"} ELSE {"valid"})
    /\ fmore \in (IF shape \in BackShapes THEN 0..2 ELSE {0})
    /\ pv = NoView /\ sl = NoSlice /\ moreAns = {}
    /\ itF = NoIter /\ itB = NoIter /\ outF = <<>> /\ outB = <<>>
    /\ InitNoMix

ViewNext ==
    \/ ViewTryFrom
    \/ ViewMore
    \/ ViewDeref
    \/ FreshIterFwd
    \/ FreshIterBwd
    \/ FwdNext
    \/ BwdNextBack

ViewSpec == ViewInit /\ [][ViewNext]_vars

\* --------------------------------------------- an iterator used from both ends
\* k successive calls of next on an iterator with the fields pos and len: the
\* fields after them and the result of the last call
RECURSIVE NextTimes(_, _, _)
NextTimes(pos, len, k) ==
    LET r == Nth(pos, len, 0) IN
    IF k <= 1 THEN r ELSE NextTimes(r.pos, r.len, k - 1)

\* k successive calls of next_back
RECURSIVE NextBackTimes(_, _, _)
NextBackTimes(pos, len, k) ==
    LET r == NthBack(pos, len, 0) IN
    IF k <= 1 THEN r ELSE NextBackTimes(r.pos, r.len, k - 1)

\* the record of a call with argument n on an iterator with `before` rows left:
\* r is what the call returned and left, ref what n + 1 single steps do
Call(op, n, before, r, ref) ==
    [op |-> op, n |-> n, before |-> before,
     item |-> r.item, rem |-> RemainingLen(r.pos, r.len),
     refItem |-> ref.item, refRem |-> RemainingLen(ref.pos, ref.len)]

\* into_iter on the view
FreshIterMix ==
    /\ pv.st = "alive" /\ shape \in IterShapes /\ itM.st = "none"
    /\ itM' = FreshIter(pv)
    /\ UNCHANGED <<shape, bridgeSide, arrVars, ylF, ylB, lastCall>>

\* nth(n) on itM
MixNthCall(n) ==
    /\ itM.st = "alive"
    /\ LET r == Nth(itM.pos, itM.len, n) IN
         /\ itM' = [itM EXCEPT !.pos = r.pos, !.len = r.len]
         /\ ylF' = IF r.item # NoItem THEN Append(ylF, r.item) ELSE ylF
         /\ lastCall' = Call("nth", n, RemainingLen(itM.pos, itM.len), r,
                             NextTimes(itM.pos, itM.len, n + 1))
    /\ UNCHANGED <<shape, bridgeSide, arrVars, ylB>>

\* nth_back(n) on itM
MixNthBackCall(n) ==
    /\ itM.st = "alive" /\ shape \in BackShapes
    /\ LET r == NthBack(itM.pos, itM.len, n) IN
         /\ itM' = [itM EXCEPT !.pos = r.pos, !.len = r.len]
         /\ ylB' = IF r.item # NoItem THEN Append(ylB, r.item) ELSE ylB
         /\ lastCall' = Call("nth_back", n, RemainingLen(itM.pos, itM.len), r,
                             NextBackTimes(itM.pos, itM.len, n + 1))
    /\ UNCHANGED <<shape, bridgeSide, arrVars, ylF>>

MixNext == MixNthCall(0)
MixNth == \E n \in 1..(MaxN + 1) : MixNthCall(n)
MixNextBack == MixNthBackCall(0)
MixNthBack == \E n \in 1..(MaxN + 1) : MixNthBackCall(n)

\* the accessor has handed out a list; no view exists yet
MixInit ==
    /\ shape \in IterShapes
    /\ InitBridge
    /\ farr \in ForeignArrays
    /\ fptr \in (IF Len(farr) = 0 THEN {"null", "valid"} ELSE {"valid"})
    /\ fmore = 0
    /\ pv = NoView /\ sl = NoSlice /\ moreAns = {}
    /\ itF = NoIter /\ itB = NoIter /\ outF = <<>> /\ outB = <<>>
    /\ InitNoMix

MixNextStep ==
    \/ ViewTryFrom
    \/ FreshIterMix
    \/ MixNext
    \/ MixNth
    \/ MixNextBack
    \/ MixNthBack

MixSpec == MixInit /\ [][MixNextStep]_vars

\* ------------------------------------------------------------------ claims
\* the components that hold the handle FdbFutureHandle
Owners ==
    {o \in {"bridge", "view", "shared"} :
        \/ o = "bridge" /\ bf
        \/ o = "view" /\ view = "alive"
        \/ o = "shared" /\ rc > 0}

\* no bridge, view, iterator or row element is left
NoOwner == ~bf /\ view # "alive" /\ iter # "alive" /\ rows = {}

\* C1: whatever the sequence of polls, drops, extraction, conversion to an
\* iterator, next / next_back and drops of the view, the iterator and the row
\* elements, fdb_future_destroy has been called at most once, and exactly once
\* when the last owner is gone.
C1_DestroyExactlyOnce ==
    /\ destroyed <= 1
    /\ NoOwner => destroyed = 1

C1_Witness ==
    /\ NoOwner /\ destroyed = 1
    /\ bridge = "dropped" /\ iter = "dropped" /\ nYielded >= 2 /\ nSuspend >= 1

\* C2: once self.f has been taken by a poll that returned Ready, every further
\* poll panics; none returns a value or Pending.
C2_PollAfterResolveFaults ==
    /\ afterConsumed \subseteq {"panic"}
    /\ (bridge = "alive" /\ afterConsumed # {}) => (~bf /\ ret.kind = "panic")

C2_Witness == afterConsumed = {"panic"} /\ ret.kind = "panic" /\ view = "alive"

\* C3: a bridge dropped while its future is pending has called
\* fdb_future_destroy exactly once, after zero, one or many polls that
\* returned Pending, and fdb_future_cancel is never called.
C3_PendingDropDestroysOnce ==
    /\ cancelCalls = 0
    /\ dropPending => destroyed = 1

C3_Witness == dropPending /\ destroyed = 1 /\ nSuspend = MaxPolls

\* C4: when the future completed after poll's fdb_future_is_ready returned 0 and
\* before fdb_future_set_callback, the callback runs during the registration
\* and the waker registered by that poll is triggered.
C4_NoMissedWakeAtRegistration ==
    (pc = "idle" /\ ret.kind = "pending" /\ regAtReady)
        => (pollTask \in woken /\ cbArg = "fired")

C4_Witness == pc = "idle" /\ ret.kind = "pending" /\ regAtReady /\ pollTask \in woken

\* C5: after the callback has fired, the task of the most recent poll that
\* returned Pending has been woken, whatever the interleaving of the callback
\* with the polls.
C5_LastPollerWoken ==
    (bridge = "alive" /\ pc = "idle" /\ ret.kind = "pending" /\ cbArg = "fired")
        => pollTask \in woken

\* C6: with a single task that re-polls on every wake, and the operation
\* completing and the callback firing, poll eventually returns Ready: the task
\* is not left suspended after the operation has completed.
C6_EventuallyReady ==
    /\ <>(ret.kind \in {"ok", "err"})
    /\ (fready ~> ret.kind \in {"ok", "err"})

C6_Witness ==
    /\ ret.kind = "ok" /\ nSuspend >= 1 /\ cbArg = "fired" /\ bridge = "alive"

\* C7: a poll that finds the future ready with a non-success status returns
\* Ready(Err) carrying that status and no typed accessor has been called; an
\* accessor is called only after the status was read as success.
C7_StatusBeforeExtraction ==
    /\ (ret.kind \in {"ok", "err"} /\ fstatus # 0)
           => (ret = Result("err", fstatus, "status") /\ accessorCalls = 0)
    /\ accessorCalls > 0 => (fready /\ fstatus = 0)

C7_Witness == ret = Result("err", MaxErr, "status") /\ accessorCalls = 0 /\ bf

\* C8: after into_iter the foreign future is not destroyed while the iterator
\* or a row element it yielded is alive, whatever the order of the drops, and
\* it is destroyed once the last of them is dropped.
C8_SharedOwnersKeepResource ==
    view = "moved" =>
        /\ (iter = "alive" \/ rows # {}) => destroyed = 0
        /\ (iter # "alive" /\ rows = {}) => destroyed = 1

C8_Witness ==
    /\ view = "moved" /\ iter = "dropped"
    /\ Cardinality(rows) = 1 /\ nYielded >= 2 /\ destroyed = 0

\* C9: while the foreign future is not destroyed exactly one of the bridge, the
\* view and the shared group of iterator and row elements holds the handle, and
\* none holds it afterwards; once a view exists the bridge holds nothing, and
\* once the shared group exists the view is gone.
C9_SingleOwner ==
    /\ Cardinality(Owners) <= 1
    /\ destroyed = 0 <=> Cardinality(Owners) = 1
    /\ view # "none" => ~bf
    /\ rc > 0 => view = "moved"

C9_Witness == Owners = {"shared"} /\ bridge = "alive" /\ ~bf /\ view = "moved"

\* C10: after any interleaving of next, nth, next_back and nth_back the reported
\* remaining length is N minus the rows consumed or skipped from the front
\* minus those consumed or skipped from the back, and is len - pos.
C10_RemainingLen ==
    iter # "none" =>
        /\ RemainingLen(ipos, ilen) = vlen - frontCnt - backCnt
        /\ RemainingLen(ipos, ilen) = ilen - ipos

C10_Witness ==
    /\ iter = "alive" /\ frontCnt > 0 /\ backCnt > 0
    /\ RemainingLen(ipos, ilen) > 0 /\ nYielded >= 2


\* ----------------------------------------------- views and their iterators
\* a run of calls has returned None
Ended(out) == \E i \in 1..Len(out) : out[i] = NoItem

\* what a run collected: the items up to the first None
UntilNone(out) ==
    LET S == {i \in 1..Len(out) : out[i] = NoItem} IN
    IF S = {} THEN out
    ELSE SubSeq(out, 1, (CHOOSE i \in S : \A j \in S : i <= j) - 1)

Reverse(q) == [i \in 1..Len(q) |-> q[Len(q) + 1 - i]]

\* the key and value bytes the row element at index i of the array exposes
RowBytes(i) ==
    [key |-> Key(farr, ForeignKeyValue(farr, i)),
     value |-> Value(farr, ForeignKeyValue(farr, i))]

\* C11: for a list view of any length N (0 included), the rows collected by
\* calling next until None, reversed, are the rows collected by calling
\* next_back until None on a fresh iterator over the same view, and both runs
\* collect N rows.
C11_ForwardReversedIsBackward ==
    (Ended(outF) /\ Ended(outB)) =>
        /\ Reverse(UntilNone(outF)) = UntilNone(outB)
        /\ Len(UntilNone(outF)) = Len(farr)
        /\ \A k \in 1..Len(UntilNone(outB)) :
               RowBytes(UntilNone(outB)[k]) = farr[Len(farr) + 1 - k]

\* both runs have ended on an array of at least two rows
C11_Witness ==
    /\ Ended(outF) /\ Ended(outB) /\ Len(farr) >= 2
    /\ farr[1] # farr[Len(farr)]

\* C12: on an iterator over N rows the k-th call of next, k <= N, yields row
\* k - 1, the row with the bytes of the k-th foreign record, and every later
\* call yields None.
C12_NextYieldsRowsInOrder ==
    \A k \in 1..Len(outF) :
        IF k <= Len(farr)
        THEN outF[k] = k - 1 /\ RowBytes(outF[k]) = farr[k]
        ELSE outF[k] = NoItem

\* next was called N + 2 times on an array of N >= 2 rows
C12_Witness == Len(farr) >= 2 /\ Len(outF) >= Len(farr) + 2

\* C13: more() is true exactly when the foreign continuation flag is non-zero,
\* and every call on the view gives that answer.
C13_MoreIsFlagNonZero ==
    (pv.st = "alive" /\ shape \in BackShapes) =>
        /\ pv.more = (fmore # 0)
        /\ moreAns \subseteq {fmore # 0}

\* more() answered true for the flag value 2
C13_Witness == fmore = 2 /\ moreAns = {TRUE} /\ shape = "mapped"

\* C14: the slice deref returns has the length of the foreign array, and its
\* i-th element exposes the key bytes and the value bytes (for an address list:
\* the string) of the i-th foreign record, also when the length is zero.
C14_DerefExposesRecords ==
    sl.st # "none" =>
        /\ sl.st = "slice"
        /\ Len(sl.elems) = Len(farr)
        /\ \A i \in 1..Len(farr) :
               IF shape = "addresses"
               THEN CStrFromPtr(farr, sl.elems[i].c_str) = farr[i].key
               ELSE /\ Key(farr, sl.elems[i]) = farr[i].key
                    /\ Value(farr, sl.elems[i]) = farr[i].value

\* ------------------------------------------------ the callback and its cell
\* the callback has fired and its wake has been delivered
CallbackDone == cbArg = "fired" /\ cellState # "REGISTERING_WAKING"

\* the callback holds the Arc it was handed through set_callback
CallbackLoan == cbArg \in {"set", "waking", "skipped"}

\* C15: over the life of one bridge fdb_future_set_callback is called at most
\* once, by the first poll that finds the future not ready, which is also the
\* poll that creates the wake cell; later not-ready polls store their waker in
\* that one cell and do not register a callback again.
C15_SetCallbackOnce ==
    /\ nSetCallback <= 1
    /\ nCells <= 1
    /\ nSetCallback = (IF nSuspend >= 1 THEN 1 ELSE 0)
    /\ (cbArg # "none") = (nSetCallback = 1)
    /\ (nSetCallback = 1 => nCells = 1)

\* the last poll, by task 2, was suspended without registering a callback: the
\* cell and the one callback are those of an earlier poll
C15_Witness ==
    /\ pc = "idle" /\ ret.kind = "pending" /\ ~pollReg
    /\ nSetCallback = 1 /\ nCells = 1 /\ cbArg = "set" /\ cellWaker = 2

C17_NoReferenceAfterDrop == bridge = "dropped" => cellRc = 0

\* C17: the strong references to the wake cell are the bridge's, while it has a
\* cell, and the one loaned to the callback, from set_callback until the
\* callback has run; the cell is freed once the callback has fired and the
\* bridge has been dropped, and a bridge dropped before the callback fires
\* leaves the loaned reference, and the cell, in place until the callback runs.
C17_CellReleased ==
    /\ cellRc = (IF bwaker THEN 1 ELSE 0) + (IF CallbackLoan THEN 1 ELSE 0)
    /\ (bridge = "dropped" /\ ~CallbackLoan => cellAlloc \in {"none", "freed"})
    /\ (bridge = "dropped" /\ CallbackLoan => cellRc = 1 /\ cellAlloc = "live")
    /\ (cellAlloc = "freed" => bridge = "dropped" /\ cbArg = "fired")

\* a pending bridge was dropped, the callback fired afterwards and the cell
\* was freed
C17_Witness ==
    /\ bridge = "dropped" /\ dropPending /\ cbArg = "fired"
    /\ cellAlloc = "freed" /\ cellRc = 0

\* C18: while the callback can still run or is running, the wake cell is
\* allocated, also when the bridge has been dropped in the meantime; the Arc
\* loaned to the callback is reclaimed at most once, and exactly once when the
\* callback has fired, and the strong count never goes below zero.
C18_CellLiveForCallback ==
    /\ (CallbackLoan => cellAlloc = "live" /\ cellRc >= 1)
    /\ cellRc >= 0
    /\ nFromRaw <= nSetCallback
    /\ nFromRaw = (IF cbArg \in {"waking", "skipped", "fired"} THEN 1 ELSE 0)

\* the callback is running after the bridge was dropped
C18_Witness ==
    /\ bridge = "dropped" /\ cbArg = "waking" /\ cellAlloc = "live" /\ nFromRaw = 1


\* ------------------------------------------------- the poll of a ready future
\* C19: once a poll has found the future ready with a non-success status, every
\* such poll has returned that status as an error, no poll has faulted and no
\* accessor was called; the bridge keeps the handle as long as it lives, so the
\* handle is destroyed by the drop of the bridge and not before.
C19_ErrorPollKeepsHandle ==
    /\ (nErrPolls >= 1 =>
            /\ fready /\ fstatus # 0
            /\ ret = Result("err", fstatus, "status")
            /\ afterConsumed = {}
            /\ xacc = NoItem /\ view = "none"
            /\ (bridge = "alive" => bf /\ destroyed = 0)
            /\ (bridge = "dropped" => destroyed = 1))
    /\ (fready /\ fstatus # 0 /\ bridge = "alive" => bf)

\* the bridge is alive after two polls that returned the status error
C19_Witness ==
    /\ nErrPolls >= 2 /\ bridge = "alive" /\ bf /\ pc = "idle" /\ destroyed = 0

\* try_from has run
Extracted == xacc # NoItem

\* the extraction returned no view: T is () or i64, the accessor failed, or
\* fdb_future_get_value reported the value absent
NoViewResult ==
    \/ shape \in {"unit", "int64"}
    \/ xacc # 0
    \/ shape = "optslice" /\ xpresent = 0

\* C20: after a poll that ran the extraction the bridge holds no handle; when
\* the result is no view (T is () or i64, an absent Option<FdbSlice>, or an
\* accessor error) fdb_future_destroy was called once by that poll and no view
\* exists; when the result is a view the handle was not destroyed by the poll:
\* the view owns it and it is not destroyed while the view is alive.
C20_ExtractionReleasesOrHandsOver ==
    Extracted =>
        /\ ~bf
        /\ IF NoViewResult
           THEN /\ view = "none" /\ destroyed = 1
                /\ (xacc # 0 => accessorCalls = 1)
           ELSE /\ view # "none"
                /\ (view = "alive" => destroyed = 0 /\ Owners = {"view"})

\* the value of an Option<FdbSlice> was absent: the poll returned Ok, destroyed
\* the handle and left the bridge consumed
C20_Witness ==
    /\ shape = "optslice" /\ xacc = 0 /\ xpresent = 0 /\ ret.kind = "ok"
    /\ bridge = "alive" /\ ~bf /\ view = "none" /\ destroyed = 1


\* ------------------------------------------- the iterator used from both ends
StrictlyIncreasing(q) == \A i \in 1..(Len(q) - 1) : q[i] < q[i + 1]
StrictlyDecreasing(q) == \A i \in 1..(Len(q) - 1) : q[i] > q[i + 1]

\* C21: after any interleaving of next, nth, next_back and nth_back on an
\* iterator over N rows, 0 <= pos <= len <= N; every row yielded has an index
\* in 0..N-1; the indices yielded from the front increase strictly, those
\* yielded from the back decrease strictly, and no index is yielded twice.
C21_IteratorBounds ==
    itM.st = "alive" =>
        /\ 0 <= itM.pos /\ itM.pos <= itM.len /\ itM.len <= Len(farr)
        /\ \A i \in 1..Len(ylF) : ylF[i] \in 0..(Len(farr) - 1)
        /\ \A i \in 1..Len(ylB) : ylB[i] \in 0..(Len(farr) - 1)
        /\ StrictlyIncreasing(ylF)
        /\ StrictlyDecreasing(ylB)
        /\ \A i \in 1..Len(ylF) : \A j \in 1..Len(ylB) : ylF[i] # ylB[j]

\* rows were yielded from both ends, a row was skipped, and the last call
\* found the iterator exhausted
C21_Witness ==
    /\ Len(farr) = 3 /\ Len(ylF) >= 1 /\ Len(ylB) >= 1
    /\ Len(ylF) + Len(ylB) < Len(farr)
    /\ lastCall.item = NoItem /\ itM.pos = itM.len

\* C22: nth(n) returns what the last of n + 1 calls of next returns and leaves
\* the remaining length they leave, and nth_back(n) likewise with next_back;
\* when n is less than the remaining length a row is returned and n + 1 rows
\* are gone, otherwise None is returned and the iterator is exhausted: both
\* next and next_back return None.
C22_NthIsRepeatedNext ==
    lastCall.op # "none" =>
        /\ lastCall.item = lastCall.refItem
        /\ lastCall.rem = lastCall.refRem
        /\ IF lastCall.n < lastCall.before
           THEN /\ lastCall.item # NoItem
                /\ lastCall.rem = lastCall.before - (lastCall.n + 1)
           ELSE /\ lastCall.item = NoItem
                /\ lastCall.rem = 0
                /\ Nth(itM.pos, itM.len, 0).item = NoItem
                /\ NthBack(itM.pos, itM.len, 0).item = NoItem

\* nth(2) on three rows yielded the last row
C22_Witness ==
    /\ lastCall.op = "nth" /\ lastCall.n = 2 /\ lastCall.before = 3
    /\ lastCall.item = 2 /\ lastCall.rem = 0


\* ------------------------------------------------- the poll that is suspended
\* a step of a poll that finds the future not ready: from the readiness test to
\* the return of Poll::Pending
PendingPollStep == pc' # pc

\* C23: no step of a poll that returns Pending changes the bridge's hold on the
\* handle: self.f stays Some and the bridge pending, fdb_future_destroy,
\* fdb_future_get_error and the typed accessors are not called, and no view
\* appears; the poll returns Pending.  What the poll changes of the bridge is
\* its wake cell: created if absent, with the callback registered for it, and
\* the waker stored in it.
C23_PendingPollFrame ==
    [][PendingPollStep =>
           /\ bf /\ bf'
           /\ bridge = "alive" /\ bridge' = "alive"
           /\ ~statusRead'
           /\ UNCHANGED <<destroyed, cancelCalls, accessorCalls, resHist,
                          fready, fstatus, viewVars>>
           /\ (pc' = "idle" => ret' = Result("pending", 0, ""))]_vars

\* a poll by task 2 has returned Pending: the bridge holds the handle, nothing
\* was destroyed or read, and task 2's waker is in the cell
C23_Witness ==
    /\ pc = "idle" /\ ret.kind = "pending" /\ pollTask = 2 /\ cellWaker = 2
    /\ bridge = "alive" /\ bf /\ destroyed = 0 /\ ~statusRead
    /\ accessorCalls = 0 /\ cellAlloc = "live"

====
